---------------------------- MODULE Spec2Model ----------------------------
(***************************************************************************)
(* A model of the resilient electric-bus fleet simulator:                  *)
(*   - the event queue and the hybrid scheduler (event_queue.py),          *)
(*   - the simulation engine's tick loop (engine.py),                      *)
(*   - the disruption manager (manager.py, flood.py, random_disruption.py),*)
(*   - the optimizer's immediate decisions (mip_model.py) and the decision *)
(*     applier (decision_applier.py),                                      *)
(*   - the bus agent (bus.py) and the charging station (charging.py).      *)
(* Times are integer seconds, SoC is an integer percentage.                *)
(***************************************************************************)
EXTENDS Integers, Sequences, FiniteSets, TLC

VARIABLES
    \* ---- HybridSimulationScheduler / EventQueue ----
    sched_in,        \* the arguments of init_events and the scheduler's settings
    queue,           \* EventQueue.queue, kept in pop order
    schedule,        \* HybridSimulationScheduler.schedule
    schedule_index,  \* HybridSimulationScheduler.schedule_index
    current_batch,   \* HybridSimulationScheduler.current_batch
    ie_time,         \* init_events' local current_time
    ie_pc,           \* where init_events is: "idle", "main", "tail", "built"
    step_ret,        \* what the last next_step() returned: <<time, type>> or <<>>
    \* ---- SimulationEngine / SimulationState ----
    cfg,             \* how the engine was set up: mode, mip_interval_steps, flood config
    pc,              \* where the engine's loop is
    current_sim_time,  \* current_sim_time of the engine's loop
    step_count,      \* step_count
    mip_call_count,  \* mip_call_count (hybrid mode)
    mip_ran,         \* per tick so far: was optimize_network called on it
    bus,             \* state.buses: the dynamic fields of each Bus
    st,              \* state.charging_stations: available_slots, operational
    active_disruptions,  \* DisruptionManager.active_disruptions
    n_random,        \* how many random disruptions were generated so far
    flood_t0,        \* FloodHazardMap._t0: <<>> or <<time>>
    stepped,         \* the buses whose step of this tick has completed
    log_rows,        \* rows the logger has written
    \* ---- the bus steps as threads of the pool ----
    th,              \* per bus: where its step is, the station it works on, the value it loaded
    fanout,          \* available_slots of each station when the steps were handed out
    \* ---- the optimizer's distance cache ----
    cache_in,        \* the arguments of the two cache functions: S_map, feasible_edges
    cache_pc,        \* "off", "start", "computed" or "loaded"
    dist_matrix,     \* what compute_and_cache_distances returned
    cache_file,      \* the object in distance_matrix_cache.json
    cached_dist,     \* what load_cached_distances returned
    \* ---- a Route being built by the loader ----
    route,           \* Route.stops and Route.segments
    add_log          \* the add_stop calls made so far, in order

schedVars == <<sched_in, queue, schedule, schedule_index, current_batch,
               ie_time, ie_pc, step_ret>>

cacheVars == <<cache_in, cache_pc, dist_matrix, cache_file, cached_dist>>

routeVars == <<route, add_log>>

engineVars == <<cfg, cacheVars, routeVars, pc, current_sim_time, step_count,
                mip_call_count, mip_ran, stepped, log_rows>>

worldVars == <<bus, st, active_disruptions, n_random, flood_t0>>

simVars == <<engineVars, worldVars>>

parVars == <<th, fanout>>

vars == <<schedVars, simVars, parVars>>

-----------------------------------------------------------------------------
(* Helpers                                                                 *)

Min2(a, b) == IF a <= b THEN a ELSE b

Max2(a, b) == IF a >= b THEN a ELSE b

Min3(a, b, c) == Min2(a, Min2(b, c))

SeqsUpTo(S, n) == UNION {[1..k -> S] : k \in 0..n}

Last(s) == s[Len(s)]

-----------------------------------------------------------------------------
(* EventQueue                                                              *)

EventTypes == {"trip_start", "trip_end"}

\* an order by time alone: equal times are not separated
EventLt_time_only(a, b) == a.time < b.time

\* SimulationEvent.__lt__: by time, ties by bus_id
EventLt(a, b) ==
    IF a.time # b.time THEN a.time < b.time ELSE a.bus_id < b.bus_id

\* a list append in place of heappush: the queue is no longer in pop order
add_event_unordered(q, e) == Append(q, e)

\* EventQueue.add_event: heappush; the queue is kept as the sequence in which
\* heappop would return the events (events the order does not separate keep
\* their insertion order)
RECURSIVE add_event(_, _)
add_event(q, e) ==
    IF q = <<>> THEN <<e>>
    ELSE IF EventLt(e, Head(q)) THEN <<e>> \o q
    ELSE <<Head(q)>> \o add_event(Tail(q), e)

\* EventQueue.add_events
RECURSIVE add_events(_, _)
add_events(q, es) ==
    IF es = <<>> THEN q ELSE add_events(add_event(q, Head(es)), Tail(es))

\* EventQueue.peek_next_time (only used on a non-empty queue)
peek_next_time(q) == Head(q).time

\* a window that slides: each event popped moves the end of the window to
\* batch_threshold after itself
RECURSIVE PopWithin_sliding(_, _, _)
PopWithin_sliding(q, batch, batch_end_time) ==
    IF q # <<>> /\ Head(q).time <= batch_end_time
    THEN PopWithin_sliding(Tail(q), Append(batch, Head(q)),
                           Head(q).time + (batch_end_time - Last(batch).time))
    ELSE [batch |-> batch, queue |-> q]

\* the while loop of get_next_batch: pop while the head is within the window
RECURSIVE PopWithin(_, _, _)
PopWithin(q, batch, batch_end_time) ==
    IF q # <<>> /\ Head(q).time <= batch_end_time
    THEN PopWithin(Tail(q), Append(batch, Head(q)), batch_end_time)
    ELSE [batch |-> batch, queue |-> q]

\* EventQueue.get_next_batch: the batch and the queue left behind
get_next_batch(q, batch_threshold) ==
    IF q = <<>> THEN [batch |-> <<>>, queue |-> q]
    ELSE PopWithin(Tail(q), <<Head(q)>>, Head(q).time + batch_threshold)

-----------------------------------------------------------------------------
(* HybridSimulationScheduler                                               *)

\* HybridSimulationSettings
BATCH_THRESHOLD_SECONDS == 30
FINE_STEP_SECONDS == 60
COARSE_STEP_SECONDS == 300
GAP_THRESHOLD_SECONDS == 300

HybridSettings ==
    [batch_threshold |-> BATCH_THRESHOLD_SECONDS,
     fine_step       |-> FINE_STEP_SECONDS,
     coarse_step     |-> COARSE_STEP_SECONDS,
     gap_threshold   |-> GAP_THRESHOLD_SECONDS]

\* an init_events that does not clear the schedule of the call before
InitEventsStart_appending ==
    /\ ie_pc \in {"idle", "built"}
    /\ queue' = add_events(<<>>, sched_in.events)
    /\ schedule_index' = 0
    /\ ie_time' = sched_in.sim_start
    /\ ie_pc' = "main"
    /\ UNCHANGED <<sched_in, schedule, current_batch, step_ret>>

\* HybridSimulationScheduler.init_events, lines 177-182
InitEventsStart ==
    /\ ie_pc \in {"idle", "built"}
    /\ queue' = add_events(<<>>, sched_in.events)
    /\ schedule' = <<>>
    /\ schedule_index' = 0
    /\ ie_time' = sched_in.sim_start
    /\ ie_pc' = "main"
    /\ UNCHANGED <<sched_in, current_batch, step_ret>>

\* the first loop's iteration with the time step not clipped to the next event
MainLoopStep_overshoot(q, now, p, sim_end) ==
    IF Head(q).time <= now + 1
    THEN LET r == PopWithin(Tail(q), <<Head(q)>>, Head(q).time + p.batch_threshold)
         IN [entry |-> [time |-> Last(r.batch).time, type |-> "batch", batch |-> r.batch],
             queue |-> r.queue]
    ELSE LET coarse == Head(q).time - now > p.gap_threshold
         IN [entry |-> [time |-> Min2(now + (IF coarse THEN p.coarse_step ELSE p.fine_step),
                                      sim_end),
                        type |-> IF coarse THEN "coarse_step" ELSE "fine_step",
                        batch |-> <<>>],
             queue |-> q]

\* the first loop's iteration with a batch stamped with its first event's time
MainLoopStep_first_time(q, now, p, sim_end) ==
    IF peek_next_time(q) <= now + 1
    THEN LET r == get_next_batch(q, p.batch_threshold)
         IN [entry |-> [time |-> Head(r.batch).time, type |-> "batch",
                        batch |-> r.batch],
             queue |-> r.queue]
    ELSE LET coarse == peek_next_time(q) - now > p.gap_threshold
             step == IF coarse THEN p.coarse_step ELSE p.fine_step
         IN [entry |-> [time |-> Min3(now + step, peek_next_time(q), sim_end),
                        type |-> IF coarse THEN "coarse_step" ELSE "fine_step",
                        batch |-> <<>>],
             queue |-> q]

\* the entry one iteration of the first loop appends, and the queue after it
MainLoopStep(q, now, p, sim_end) ==
    IF peek_next_time(q) <= now + 1
    THEN LET r == get_next_batch(q, p.batch_threshold)
             batch_time == Last(r.batch).time
         IN [entry |-> [time |-> batch_time, type |-> "batch", batch |-> r.batch],
             queue |-> r.queue]
    ELSE LET gap == peek_next_time(q) - now
             coarse == gap > p.gap_threshold
             step == IF coarse THEN p.coarse_step ELSE p.fine_step
             step_type == IF coarse THEN "coarse_step" ELSE "fine_step"
             next_time == Min3(now + step, peek_next_time(q), sim_end)
         IN [entry |-> [time |-> next_time, type |-> step_type, batch |-> <<>>],
             queue |-> q]

\* one iteration of `while current_time < sim_end and not queue.is_empty()`
InitEventsMainLoop ==
    /\ ie_pc = "main"
    /\ IF ie_time < sched_in.sim_end /\ queue # <<>>
       THEN LET r == MainLoopStep(queue, ie_time, sched_in.params, sched_in.sim_end)
            IN /\ schedule' = Append(schedule, r.entry)
               /\ queue' = r.queue
               /\ ie_time' = r.entry.time
               /\ ie_pc' = "main"
       ELSE /\ ie_pc' = "tail"
            /\ UNCHANGED <<schedule, queue, ie_time>>
    /\ UNCHANGED <<sched_in, schedule_index, current_batch, step_ret>>

\* a coarse step that is not clipped to sim_end
TailStep_unclipped(now, p, sim_end) == now + p.coarse_step

\* next_time = min(current_time + self.coarse_step, sim_end)
TailStep(now, p, sim_end) == Min2(now + p.coarse_step, sim_end)

\* one iteration of `while current_time < sim_end` (the coarse tail)
InitEventsTailLoop ==
    /\ ie_pc = "tail"
    /\ IF ie_time < sched_in.sim_end
       THEN LET next_time == TailStep(ie_time, sched_in.params, sched_in.sim_end)
            IN /\ schedule' = Append(schedule,
                      [time |-> next_time, type |-> "coarse_step", batch |-> <<>>])
               /\ ie_time' = next_time
               /\ ie_pc' = "tail"
       ELSE /\ ie_pc' = "built"
            /\ UNCHANGED <<schedule, ie_time>>
    /\ UNCHANGED <<sched_in, queue, schedule_index, current_batch, step_ret>>

\* the coarse tail of init_events as a function: the entries from now on
RECURSIVE init_events_tail(_, _, _)
init_events_tail(now, p, sim_end) ==
    IF now < sim_end
    THEN LET next_time == TailStep(now, p, sim_end)
         IN <<[time |-> next_time, type |-> "coarse_step", batch |-> <<>>]>>
            \o init_events_tail(next_time, p, sim_end)
    ELSE <<>>

\* init_events as a function: the schedule it builds from a queue and a time
RECURSIVE init_events(_, _, _, _)
init_events(q, now, p, sim_end) ==
    IF now < sim_end /\ q # <<>>
    THEN LET r == MainLoopStep(q, now, p, sim_end)
         IN <<r.entry>> \o init_events(r.queue, r.entry.time, p, sim_end)
    ELSE init_events_tail(now, p, sim_end)

\* HybridSimulationScheduler.next_step as a function of the scheduler's fields
next_step_result(sch, idx) ==
    IF idx >= Len(sch)
    THEN [ret |-> <<>>, batch_set |-> FALSE, batch |-> <<>>, index |-> idx]
    ELSE [ret |-> <<sch[idx + 1].time, sch[idx + 1].type>>, batch_set |-> TRUE,
          batch |-> sch[idx + 1].batch, index |-> idx + 1]

\* HybridSimulationScheduler.next_step
next_step ==
    /\ ie_pc = "built"
    /\ LET r == next_step_result(schedule, schedule_index)
       IN /\ step_ret' = r.ret
          /\ current_batch' = IF r.batch_set THEN r.batch ELSE current_batch
          /\ schedule_index' = r.index
    /\ UNCHANGED <<sched_in, queue, schedule, ie_time, ie_pc>>

\* HybridSimulationScheduler.reset
reset ==
    /\ ie_pc = "built"
    /\ schedule_index' = 0
    /\ current_batch' = <<>>
    /\ UNCHANGED <<sched_in, queue, schedule, ie_time, ie_pc, step_ret>>

-----------------------------------------------------------------------------
(* The network the simulation runs on: one route of three stops, one depot, *)
(* one single-slot charging station, two buses with one trip each.          *)

None == "None"

Buses == {1, 2}

BusList == <<1, 2>>

StopIds == {"A", "B", "C"}

\* Route R1: route_id and its ordered stops (route.py, class Route)
RouteIds == {"R1"}

RouteStops == [r \in RouteIds |-> <<"A", "B", "C">>]

\* Stop.demand
Demand == [s \in StopIds |-> 1]

DepotName == "D"

StationList == <<"S1">>

Stations == {StationList[i] : i \in 1..Len(StationList)}

\* ChargingStation.total_slots, capacity_kw, compatible_companies
TotalSlots == [c \in Stations |-> 1]

CapacityKw == [c \in Stations |-> 120]

Compatible == [c \in Stations |-> {"Default"}]

\* Bus.company, Bus.battery_capacity_kwh
Company == [b \in Buses |-> "Default"]

BatteryKwh == [b \in Buses |-> 10]

\* the places a bus can be, on a line; one unit is 10 km
Places == StopIds \cup {DepotName} \cup Stations

PlaceKm == [x \in Places |->
    CASE x = "D" -> 0 [] x = "A" -> 10 [] x = "B" -> 20 [] x = "C" -> 30
      [] OTHER -> 20]

\* geodesic(...) between two places, in km
DistKm(x, y) == IF PlaceKm[x] >= PlaceKm[y] THEN PlaceKm[x] - PlaceKm[y]
                ELSE PlaceKm[y] - PlaceKm[x]

\* Bus.daily_schedule: one trip per bus
Trips == [b \in Buses |->
    IF b = 1 THEN <<[route |-> "R1", start_time |-> 300, end_time |-> 1500]>>
    ELSE <<[route |-> "R1", start_time |-> 300, end_time |-> 1800]>>]

\* Bus.soc_percent at construction
SocChoices == {25, 100}

-----------------------------------------------------------------------------
(* ChargingStation (core/charging.py). A station's dynamic state is a      *)
(* record [available_slots, operational]; sm is the map of all stations.    *)

is_available(sm, c, company) ==
    /\ sm[c].operational
    /\ sm[c].available_slots > 0
    /\ company \in Compatible[c]

\* an occupy() that takes a slot without looking at the counter
occupy_unguarded(sm, c) == [sm EXCEPT ![c].available_slots = @ - 1]

occupy(sm, c) ==
    IF sm[c].available_slots > 0
    THEN [sm EXCEPT ![c].available_slots = @ - 1]
    ELSE sm

release(sm, c) ==
    IF sm[c].available_slots < TotalSlots[c]
    THEN [sm EXCEPT ![c].available_slots = @ + 1]
    ELSE sm

-----------------------------------------------------------------------------
(* Bus (fleet/bus.py) and its settings (config/settings.py)                 *)

\* ENERGY_CONSUMPTION_KWH_PER_KM = 0.1, kept as km per kWh
KM_PER_KWH == 10

CRITICAL_SOC_PERCENT == 15

CHARGING_MIN_TIME_SECONDS == 120

\* random.randint(5, 30): the two ends of the range
DelayChoices == {5, 30}

\* Bus.soc setter: clamp to [0, 100]
ClampSoc(v) == Max2(0, Min2(100, v))

\* (distance_km * ENERGY_CONSUMPTION_KWH_PER_KM / battery_capacity_kwh) * 100
SocCost(b, dist_km) == (dist_km * 100) \div (KM_PER_KWH * BatteryKwh[b])

update_soc(br, b, dist_km) == [br EXCEPT !.soc = ClampSoc(@ - SocCost(b, dist_km))]

\* Route segments carry no precomputed distance (Route.add_stop rebuilds the
\* segments with distance None), so the geodesic fallback is what runs.
get_distance_to_next_stop(br) ==
    IF br.route = None \/ br.idx >= Len(RouteStops[br.route]) THEN 0
    ELSE DistKm(br.loc, RouteStops[br.route][br.idx + 1])

\* the compatible available stations, in list order
AvailableStations(sm, b) ==
    SelectSeq(StationList, LAMBDA c : is_available(sm, c, Company[b]))

RECURSIVE NearestOf(_, _)
\* min(..., key = distance): the first of the nearest
NearestOf(cands, loc) ==
    IF Len(cands) = 1 THEN cands[1]
    ELSE LET rest == NearestOf(Tail(cands), loc)
         IN IF DistKm(loc, cands[1]) <= DistKm(loc, rest) THEN cands[1] ELSE rest

find_nearest_charger(sm, br, b) ==
    LET cands == AvailableStations(sm, b)
    IN IF cands = <<>> THEN None ELSE NearestOf(cands, br.loc)

\* required_kwh / capacity_kw * 3600, in whole seconds
NeededSeconds(br, b, c) ==
    ((100 - br.soc) * BatteryKwh[b] * 36) \div CapacityKw[c]

\* start_charging: returns the bus and the stations
start_charging(br, sm, b, c, t) ==
    [bus |-> [br EXCEPT !.charging_station = c,
                        !.charging_end_time =
                            <<t + Max2(CHARGING_MIN_TIME_SECONDS, NeededSeconds(br, b, c))>>,
                        !.loc = c,
                        !.status = "charging"],
     st  |-> occupy(sm, c)]

finish_charging(br, sm) ==
    [bus |-> [br EXCEPT !.charging_station = None,
                        !.soc = 100,
                        !.status = "in_depot",
                        !.charging_end_time = <<>>],
     st  |-> IF br.charging_station # None THEN release(sm, br.charging_station)
             ELSE sm]

\* a return that never reaches the depot: the bus is stranded whatever its charge
return_to_depot_strands(br, b) == [br EXCEPT !.status = "stranded"]

\* a return that neither tests the reach nor goes through the soc setter
return_to_depot_unchecked(br, b) ==
    [br EXCEPT !.soc = @ - SocCost(b, DistKm(br.loc, DepotName)),
               !.loc = DepotName,
               !.status = "in_depot"]

return_to_depot(br, b) ==
    LET dist_km == DistKm(br.loc, DepotName)
    IN IF br.soc * BatteryKwh[b] * KM_PER_KWH < dist_km * 100
       THEN [br EXCEPT !.status = "stranded"]
       ELSE [update_soc(br, b, dist_km) EXCEPT !.loc = DepotName,
                                               !.status = "in_depot"]

\* Disruption.is_active
is_active(d, t) == d.start_time <= t /\ t <= d.end_time

\* the test switched off: no stop is ever seen as disrupted
NextStopDisrupted_off(br, stop, ds, t) == FALSE

\* the next-stop test of Bus.step
NextStopDisrupted(br, stop, ds, t) ==
    \E i \in 1..Len(ds) :
        /\ is_active(ds[i], t)
        /\ ds[i].route_id = br.route
        /\ stop \in ds[i].affected_stop_ids

\* section 2 of Bus.step: carry out a pending mip_decision, then clear it
ExecuteDecision(br, sm, b, t) ==
    IF br.mip_decision = <<>> THEN [bus |-> br, st |-> sm]
    ELSE LET d == br.mip_decision[1]
             r == IF d.action = "charge" /\ d.target \in Stations
                     /\ is_available(sm, d.target, Company[b])
                  THEN start_charging(br, sm, b, d.target, t)
                  ELSE [bus |-> br, st |-> sm]
         IN [bus |-> [r.bus EXCEPT !.mip_decision = <<>>], st |-> r.st]

\* section 3 of Bus.step: is the next trip due
DispatchDue(br, b, t) ==
    /\ br.status \in {"in_depot", "idle"}
    /\ br.trip_idx < Len(Trips[b])
    /\ t >= Trips[b][br.trip_idx + 1].start_time

\* a skip that also puts the bus at the stop it skips
SkipStop_moving(br, stop) ==
    [br EXCEPT !.unserved_demand = @ + Demand[stop], !.idx = @ + 1, !.loc = stop]

\* unserved_demand += next_stop.demand; current_stop_index += 1; return
SkipStop(br, stop) ==
    [br EXCEPT !.unserved_demand = @ + Demand[stop], !.idx = @ + 1]

\* section 4 of Bus.step: skip a disrupted stop, finish the trip, divert on
\* low charge, or move to the next stop
OnRoute(br, sm, b, t, ds, delay) ==
    LET stops == RouteStops[br.route]
    IN IF br.idx < Len(stops) /\ NextStopDisrupted(br, stops[br.idx + 1], ds, t)
       THEN [bus |-> SkipStop(br, stops[br.idx + 1]), st |-> sm]
       ELSE IF br.idx >= Len(stops)
       THEN [bus |-> return_to_depot([br EXCEPT !.route = None, !.idx = 0], b),
             st  |-> sm]
       ELSE LET dist_km == get_distance_to_next_stop(br)
                estimated_soc_after == br.soc - SocCost(b, dist_km)
                charger == find_nearest_charger(sm, br, b)
            IN IF estimated_soc_after < CRITICAL_SOC_PERCENT
               THEN IF charger # None
                    THEN start_charging(br, sm, b, charger, t)
                    ELSE [bus |-> return_to_depot(br, b), st |-> sm]
               ELSE [bus |-> [update_soc(br, b, dist_km) EXCEPT
                                  !.loc = stops[br.idx + 1],
                                  !.idx = @ + 1,
                                  !.delay_seconds = @ + delay],
                     st  |-> sm]

\* Bus.step: the bus and the stations after one step of bus b at time t
step(br, sm, b, t, ds, delay) ==
    IF br.status = "charging"
    THEN IF br.charging_end_time # <<>> /\ br.charging_end_time[1] <= t
         THEN finish_charging(br, sm)
         ELSE [bus |-> br, st |-> sm]
    ELSE LET r == ExecuteDecision(br, sm, b, t)
         IN IF DispatchDue(r.bus, b, t)
            THEN [bus |-> [r.bus EXCEPT !.route = Trips[b][r.bus.trip_idx + 1].route,
                                        !.idx = 0,
                                        !.status = "on_route",
                                        !.trip_idx = @ + 1],
                  st  |-> r.st]
            ELSE IF r.bus.status = "on_route"
            THEN OnRoute(r.bus, r.st, b, t, ds, delay)
            ELSE r

-----------------------------------------------------------------------------
(* optimize_network (optimization/mip_model.py): the node maps, the         *)
(* feasible edges, and the immediate decisions a solution can carry.        *)

DepotNode == "Depot_D"

\* all affected stops of the disruptions handed to the optimizer
disrupted_stop_ids(ds) == UNION {ds[i].affected_stop_ids : i \in 1..Len(ds)}

\* a node set that keeps the disrupted stops
S_ids_all(ds) == StopIds \cup {DepotNode} \cup Stations

\* the node ids; a charging station's name stands for "CS_<name>_<i>"
S_ids(ds) == (StopIds \ disrupted_stop_ids(ds)) \cup {DepotNode} \cup Stations

feasible_edges(ds) ==
    LET S == S_ids(ds)
    IN  ({<<RouteStops[r][i], RouteStops[r][i + 1]>> :
            r \in RouteIds, i \in 1..2} \cap (S \X S))
        \cup {<<s, c>> : s \in S \ Stations, c \in Stations}
        \cup {<<c, DepotNode>> : c \in Stations}
        \cup {<<DepotNode, RouteStops[r][1]>> : r \in {q \in RouteIds : RouteStops[q][1] \in S}}
        \cup {<<s, DepotNode>> : s \in S \cap StopIds}

\* the initial-position rows: the node the bus is pinned to, or None
current_node(br, ds) ==
    IF br.status = "on_route" /\ br.route # None /\ br.idx > 0
    THEN IF RouteStops[br.route][br.idx] \in S_ids(ds)
         THEN RouteStops[br.route][br.idx] ELSE None
    ELSE IF br.status \in {"in_depot", "idle", "returning_to_depot"} THEN DepotNode
    ELSE IF br.status = "charging" /\ br.charging_station # None
    THEN br.charging_station
    ELSE None

NoDecision == [action |-> "none", target |-> ""]

\* step 9: the decision read off a move along an edge into s2
EdgeDecision(s2) ==
    IF s2 = DepotNode THEN [action |-> "return_depot", target |-> s2]
    ELSE IF s2 \in Stations THEN [action |-> "charge", target |-> s2]
    ELSE [action |-> "move", target |-> s2]

\* charge_gain of one minute of charging, in percent
ChargeGain(b, c) == (CapacityKw[c] * 100) \div (60 * BatteryKwh[b])

\* can charge[b, c, 0] be 1: the capacity row and the soc bound
CanChargeNow(br, sm, b, c) ==
    sm[c].available_slots >= 1 /\ br.soc + ChargeGain(b, c) <= 100

\* the decisions a solution can carry for bus b
BusDecisions(br, sm, b, ds) ==
    LET n == current_node(br, ds)
        E == feasible_edges(ds)
    IN IF n # None
       THEN {EdgeDecision(e[2]) : e \in {f \in E : f[1] = n}}
            \cup {[action |-> "charge", target |-> c] :
                    c \in {k \in Stations : k = n /\ CanChargeNow(br, sm, b, k)}}
       ELSE {NoDecision} \cup {EdgeDecision(e[2]) : e \in E}

\* return {"decisions": {}}
NoDecisions == [b \in Buses |-> NoDecision]

\* step 9 on the values of a solution that satisfies the constraints
SolutionDecisions(bs, sm, ds) ==
    {dec \in [Buses -> UNION {BusDecisions(bs[b], sm, b, ds) : b \in Buses}] :
        /\ \A b \in Buses : dec[b] \in BusDecisions(bs[b], sm, b, ds)
        /\ \A c \in Stations :
              Cardinality({b \in Buses : current_node(bs[b], ds) = c
                                         /\ dec[b].action = "charge"})
                 <= sm[c].available_slots}

\* the optimizer's result: a decision per bus, or no decisions at all when
\* the solve ends without a usable status
Decisions(bs, sm, ds) ==
    {NoDecisions} \cup SolutionDecisions(bs, sm, ds)

\* pulp's LpStatus: the name of each value prob.status can take
LpStatus ==
    [code \in -3..1 |->
        CASE code = 1 -> "Optimal"
          [] code = 0 -> "Not Solved"
          [] code = -1 -> "Infeasible"
          [] code = -2 -> "Unbounded"
          [] code = -3 -> "Undefined"]

\* the negation of: if prob.status not in [1, -1]
StatusAccepted(code) == code \in {1, -1}

\* the capacity rows sum(charge[b, c, t]) <= available_slots have no solution
\* when a station's counter is negative
MipInfeasible(sm) == \E c \in Stations : sm[c].available_slots < 0

\* the values prob.status can have after prob.solve(solver): the time limit
\* can always end the solve without a solution
SolverOutcomes(sm) ==
    {0, -3} \cup (IF MipInfeasible(sm) THEN {-1} ELSE {1})

\* step 9 on the values the solver leaves after an infeasible solve: any
\* charge variable of t = 0 or any edge variable of t = 0 may carry a 1
LeftoverDecisions(ds) ==
    [Buses -> {NoDecision}
              \cup {[action |-> "charge", target |-> c] : c \in Stations}
              \cup {EdgeDecision(e[2]) : e \in feasible_edges(ds)}]

\* optimize_network: what it can return when the solve ends with this status
optimize_network(code, bs, sm, ds) ==
    IF ~StatusAccepted(code) THEN {NoDecisions}
    ELSE IF LpStatus[code] = "Optimal" THEN SolutionDecisions(bs, sm, ds)
    ELSE LeftoverDecisions(ds)

-----------------------------------------------------------------------------
(* apply_mip_decisions (optimization/decision_applier.py)                   *)

\* index of a stop in a route's stop list, counted from 0 as enumerate does
StopIndex(r, s) == (CHOOSE i \in 1..Len(RouteStops[r]) : RouteStops[r][i] = s) - 1

OnRouteOf(r, s) == \E i \in 1..Len(RouteStops[r]) : RouteStops[r][i] = s

\* cap at 1 hour
CHARGE_CAP_SECONDS == 3600

\* the availability test left out: any known station is charged at
ChargeStationUsable_any(sm, b, target) == target \in Stations

\* station = station_map.get(station_id);
\* if station and station.is_available(bus.company)
ChargeStationUsable(sm, b, target) ==
    target \in Stations /\ is_available(sm, target, Company[b])

apply_decision(br, sm, b, d, t, ds) ==
    CASE d.action = "charge" ->
            IF ChargeStationUsable(sm, b, d.target)
            THEN [br EXCEPT !.status = "charging",
                            !.charging_station = d.target,
                            !.charging_end_time =
                                <<t + Min2(NeededSeconds(br, b, d.target), CHARGE_CAP_SECONDS)>>,
                            !.mip_decision = <<>>]
            ELSE [br EXCEPT !.mip_decision = <<>>]
      [] d.action = "return_depot" ->
            [br EXCEPT !.status = "returning_to_depot", !.mip_decision = <<>>]
      [] d.action = "move" ->
            IF d.target \notin S_ids(ds) THEN br
            ELSE IF br.route # None /\ OnRouteOf(br.route, d.target)
            THEN [br EXCEPT !.idx = StopIndex(br.route, d.target),
                            !.loc = d.target,
                            !.status = "on_route",
                            !.mip_decision = <<>>]
            ELSE IF d.target = DepotNode
            THEN [br EXCEPT !.status = "returning_to_depot", !.mip_decision = <<>>]
            ELSE IF d.target \in Stations /\ is_available(sm, d.target, Company[b])
            THEN [br EXCEPT !.mip_decision = <<[action |-> "charge", target |-> d.target]>>,
                            !.charging_station = d.target,
                            !.status = "heading_to_charger"]
            ELSE br
      [] OTHER -> br

apply_mip_decisions(bs, sm, dec, t, ds) ==
    [b \in Buses |-> apply_decision(bs[b], sm, b, dec[b], t, ds)]

-----------------------------------------------------------------------------
(* DisruptionManager.update (hazards/manager.py), generate_random_disruption *)
(* (hazards/random_disruption.py) and the flood functions (hazards/flood.py) *)

FLOOD_DEPTH_THRESHOLD_CM == 50

FLOOD_DURATION_MINUTES == 120

\* an expiry that keeps a disruption ending exactly now
Expire_late(ds, t) == SelectSeq(ds, LAMBDA d : d.end_time >= t)

\* step 1 of update: keep what has not ended yet
Expire(ds, t) == SelectSeq(ds, LAMBDA d : d.end_time > t)

\* route.stops[start_idx : start_idx + num_affected], 1 to 3 consecutive stops
AffectedWindows(r) ==
    {{RouteStops[r][i] : i \in lo..hi} :
        lo \in 1..Len(RouteStops[r]),
        hi \in 1..Len(RouteStops[r])} \ {{}}

\* random.randint(MIN_MINUTES, MAX_MINUTES): the two ends of the range
RandomDurationMinutes == {5, 15}

RandomDisruptions(t) ==
    UNION {{[route_id |-> r, affected_stop_ids |-> w, start_time |-> t,
             end_time |-> t + m * 60] :
                w \in AffectedWindows(r), m \in RandomDurationMinutes} :
           r \in RouteIds}

\* _base_depth_cm_at_point: 0 without a raster, outside its bounds and on a
\* nodata cell, else the cell's depth
base_depth_cm_at_point(fc, x) ==
    IF ~fc.raster_loaded \/ x \notin fc.covered
    THEN 0
    ELSE Max2(0, fc.base_cm[x])

\* get_effective_depth_m, in cm * 3600 (the depth in cm times the seconds of
\* an hour, so that the hours elapsed need no division)
get_effective_depth(fc, t0, x, t) ==
    LET elapsed == Max2(0, t - t0)
        eff == base_depth_cm_at_point(fc, x) * 3600
               + (fc.precipitation_cm_per_hr - fc.recession_cm_per_hr) * elapsed
    IN Max2(0, eff)

\* depth_m >= config.flood_depth_threshold_m
Flooded(fc, t0, x, t) ==
    get_effective_depth(fc, t0, x, t) >= FLOOD_DEPTH_THRESHOLD_CM * 3600

\* a detection that reports every route, flooded or not
FloodDisruptions_always(fc, t0, t) ==
    <<[route_id |-> "R1",
       affected_stop_ids |-> {s \in StopIds : Flooded(fc, t0, s, t)},
       start_time |-> t,
       end_time |-> t + FLOOD_DURATION_MINUTES * 60]>>

\* detect_flood_impact: one disruption per route with a flooded stop
FloodDisruptions(fc, t0, t) ==
    LET affected == {s \in StopIds : Flooded(fc, t0, s, t)}
    IN IF affected = {} THEN <<>>
       ELSE <<[route_id |-> "R1", affected_stop_ids |-> affected,
               start_time |-> t,
               end_time |-> t + FLOOD_DURATION_MINUTES * 60]>>

\* an apply_flood_impacts that never restores a station
FloodStations_sticky(fc, t0, sm, t) ==
    [c \in Stations |->
        [sm[c] EXCEPT !.operational =
            @ /\ ~(fc.disrupt_charging_stations /\ Flooded(fc, t0, c, t))]]

\* apply_flood_impacts on the stations
FloodStations(fc, t0, sm, t) ==
    [c \in Stations |->
        [sm[c] EXCEPT !.operational =
            ~(fc.disrupt_charging_stations /\ Flooded(fc, t0, c, t))]]

\* apply_flood_impacts on the buses
FloodBuses(fc, t0, bs, t) ==
    [b \in Buses |->
        IF fc.disrupt_buses /\ Flooded(fc, t0, bs[b].loc, t)
        THEN [bs[b] EXCEPT !.status = "stranded"]
        ELSE bs[b]]

\* update(): new is <<>> or the one random disruption of this call
Update(new, t) ==
    LET fc == cfg.flood
        t0 == IF flood_t0 = <<>> THEN t ELSE flood_t0[1]
        kept == Expire(active_disruptions, t) \o new
    IN /\ n_random' = n_random + Len(new)
       /\ IF fc.enabled /\ fc.raster_loaded
          THEN /\ active_disruptions' = kept \o FloodDisruptions(fc, t0, t)
               /\ st' = FloodStations(fc, t0, st, t)
               /\ bus' = FloodBuses(fc, t0, bus, t)
               /\ flood_t0' = <<t0>>
          ELSE IF fc.enabled
          THEN \* no raster: nothing is detected, every station is restored
               /\ active_disruptions' = kept
               /\ st' = [c \in Stations |-> [st[c] EXCEPT !.operational = TRUE]]
               /\ UNCHANGED <<bus, flood_t0>>
          ELSE /\ active_disruptions' = kept
               /\ UNCHANGED <<st, bus, flood_t0>>

-----------------------------------------------------------------------------
(* The state a simulation starts from                                       *)

\* Bus.__init__
NewBus(soc) ==
    [status |-> "in_depot", soc |-> soc, loc |-> DepotName, route |-> None,
     idx |-> 0, trip_idx |-> 0, charging_station |-> None,
     charging_end_time |-> <<>>, mip_decision |-> <<>>,
     unserved_demand |-> 0, delay_seconds |-> 0]

\* ChargingStation.__post_init__: available_slots = total_slots
NewStations ==
    [c \in Stations |-> [available_slots |-> TotalSlots[c], operational |-> TRUE]]

\* FloodHazardConfig: no flood map, a rising flood, a receding flood
NoFlood ==
    [enabled |-> FALSE, raster_loaded |-> FALSE, covered |-> {},
     base_cm |-> [x \in Places |-> 0],
     precipitation_cm_per_hr |-> 0, recession_cm_per_hr |-> 0,
     disrupt_charging_stations |-> TRUE, disrupt_buses |-> FALSE]

RisingFlood ==
    [enabled |-> TRUE, raster_loaded |-> TRUE, covered |-> {"B", "S1"},
     base_cm |-> [x \in Places |-> IF x \in {"B", "S1"} THEN 45 ELSE 0],
     precipitation_cm_per_hr |-> 60, recession_cm_per_hr |-> 0,
     disrupt_charging_stations |-> TRUE, disrupt_buses |-> TRUE]

RecedingFlood ==
    [enabled |-> TRUE, raster_loaded |-> TRUE, covered |-> {"B", "S1"},
     base_cm |-> [x \in Places |-> IF x \in {"B", "S1"} THEN 55 ELSE 0],
     precipitation_cm_per_hr |-> 0, recession_cm_per_hr |-> 60,
     disrupt_charging_stations |-> TRUE, disrupt_buses |-> TRUE]

FloodConfigs == {NoFlood, RisingFlood, RecedingFlood}

\* no step is running in the pool
IdleThread == [pc |-> "idle", op |-> "none", station |-> None, loaded |-> 0]

NoThreads ==
    /\ th = [b \in Buses |-> IdleThread]
    /\ fanout = [c \in Stations |-> TotalSlots[c]]

\* no cache function has been called
NoCache ==
    /\ cache_in = [S_map |-> <<>>, feasible_edges |-> {}]
    /\ cache_pc = "off"
    /\ dist_matrix = <<>>
    /\ cache_file = <<>>
    /\ cached_dist = <<>>

\* Route(route_id, name): no stops, and __post_init__ builds no segment
NoRoute ==
    /\ route = [stops |-> <<>>, segments |-> <<>>]
    /\ add_log = <<>>

\* the engine before run() is called
SimNotRunning ==
    /\ cfg = [mode |-> "none", mip_interval_steps |-> 10, use_mip |-> TRUE,
              step_seconds |-> 0, sim_end |-> 0,
              use_random_disruptions |-> TRUE, flood |-> NoFlood]
    /\ pc = "off"
    /\ current_sim_time = 0
    /\ step_count = 0
    /\ mip_call_count = 0
    /\ mip_ran = <<>>
    /\ bus = [b \in Buses |-> NewBus(100)]
    /\ st = NewStations
    /\ active_disruptions = <<>>
    /\ n_random = 0
    /\ flood_t0 = <<>>
    /\ stepped = {}
    /\ log_rows = 0
    /\ NoThreads

-----------------------------------------------------------------------------
(* The scheduler on its own: init_events on bounded inputs, then next_step  *)
(* and reset.                                                              *)

MaxEvents == 3

SchedBusIds == {1, 2}

SmallEventTimes == {0, 3, 4, 8}

SmallEvents ==
    [time : SmallEventTimes, bus_id : SchedBusIds, event_type : {"trip_start"}]

SmallSettings ==
    {[batch_threshold |-> bt, fine_step |-> 2, coarse_step |-> 4, gap_threshold |-> 3] :
        bt \in {0, 2, 4}}

SmallInputs ==
    [events : SeqsUpTo(SmallEvents, MaxEvents), sim_start : {2}, sim_end : {7, 8, 9},
     params : SmallSettings]

\* the batch-scheduling scenario: events at 100, 110, 120, 5000 under the
\* HybridSimulationSettings defaults
ScenarioEvents ==
    [i \in 1..4 |->
        [time |-> <<100, 110, 120, 5000>>[i], bus_id |-> 1, event_type |-> "trip_start"]]

ScenarioInputs ==
    [events : {ScenarioEvents}, sim_start : {100}, sim_end : {5100, 5600},
     params : {HybridSettings}]

SchedInputs == SmallInputs \cup ScenarioInputs

SchedInit ==
    /\ sched_in \in SchedInputs
    /\ queue = <<>>
    /\ schedule = <<>>
    /\ schedule_index = 0
    /\ current_batch = <<>>
    /\ ie_time = 0
    /\ ie_pc = "idle"
    /\ step_ret = <<>>
    /\ SimNotRunning
    /\ NoCache
    /\ NoRoute

SchedNext ==
    \/ InitEventsStart /\ UNCHANGED <<simVars, parVars>>
    \/ InitEventsMainLoop /\ UNCHANGED <<simVars, parVars>>
    \/ InitEventsTailLoop /\ UNCHANGED <<simVars, parVars>>
    \/ next_step /\ UNCHANGED <<simVars, parVars>>
    \/ reset /\ UNCHANGED <<simVars, parVars>>

SpecSched == SchedInit /\ [][SchedNext]_vars

-----------------------------------------------------------------------------
(* SimulationEngine (simulation/engine.py): run(), the fixed-interval loop  *)
(* and the hybrid loop. A tick is: update of the disruptions, the optimizer *)
(* with the decision applier when it is due, the bus steps handed to the    *)
(* thread pool (here each step whole, in any order), the log row.           *)

MaxTicks == 6

MaxRandomDisruptions == 1

\* run(): sim_start = min(all_start_times) - 300
SimStartTime ==
    LET starts == {Trips[b][i].start_time : b \in Buses, i \in 1..1}
    IN (CHOOSE t \in starts : \A u \in starts : t <= u) - 300

\* run(step_seconds = 300)
StepSeconds == 300

\* run(duration_hours = 0.25) in hybrid mode
HybridDurationSeconds == 900

RECURSIVE RawEvents(_)
\* build_event_list: a start and an end event per trip, bus by bus
RawEvents(bs) ==
    IF bs = <<>> THEN <<>>
    ELSE <<[time |-> Trips[Head(bs)][1].start_time, bus_id |-> Head(bs),
            event_type |-> "trip_start"],
           [time |-> Trips[Head(bs)][1].end_time, bus_id |-> Head(bs),
            event_type |-> "trip_end"]>> \o RawEvents(Tail(bs))

RECURSIVE SortByTime(_)
\* events.sort(key = time): stable
SortByTime(es) ==
    IF es = <<>> THEN <<>>
    ELSE LET rest == SortByTime(Tail(es))
             before == SelectSeq(rest, LAMBDA e : e.time < Head(es).time)
             after == SelectSeq(rest, LAMBDA e : e.time >= Head(es).time)
         IN before \o <<Head(es)>> \o after

build_event_list == SortByTime(RawEvents(BusList))

\* a fixed-interval run and a hybrid run, as set up by the caller
FixedConfig(k, random, f) ==
    [mode |-> "fixed_interval", mip_interval_steps |-> k, use_mip |-> TRUE,
     step_seconds |-> StepSeconds,
     sim_end |-> SimStartTime + MaxTicks * StepSeconds,
     use_random_disruptions |-> random, flood |-> f, scheduled |-> TRUE]

HybridConfig(random, f) ==
    [mode |-> "hybrid_adaptive", mip_interval_steps |-> 10, use_mip |-> TRUE,
     step_seconds |-> StepSeconds,
     sim_end |-> SimStartTime + HybridDurationSeconds,
     use_random_disruptions |-> random, flood |-> f, scheduled |-> TRUE]

\* run(duration_hours = 1/6, step_seconds = 60) on a fleet whose buses all
\* have an empty daily_schedule, the engine as constructed (interval 10)
IdleConfig ==
    [mode |-> "fixed_interval", mip_interval_steps |-> 10, use_mip |-> TRUE,
     step_seconds |-> 60, sim_end |-> SimStartTime + 10 * 60,
     use_random_disruptions |-> FALSE, flood |-> NoFlood, scheduled |-> FALSE]

\* run(duration_hours = 26/60, step_seconds = 60) with use_mip switched off by
\* the caller and full batteries: ticks at 0, 60, ..., 1500
SingleTripConfig ==
    [mode |-> "fixed_interval", mip_interval_steps |-> 10, use_mip |-> FALSE,
     step_seconds |-> 60, sim_end |-> SimStartTime + 26 * 60,
     use_random_disruptions |-> FALSE, flood |-> NoFlood, scheduled |-> TRUE]

Configs ==
    {FixedConfig(1, TRUE, NoFlood), FixedConfig(2, FALSE, NoFlood),
     FixedConfig(3, FALSE, NoFlood), FixedConfig(2, FALSE, RisingFlood),
     FixedConfig(2, FALSE, RecedingFlood),
     HybridConfig(FALSE, NoFlood), HybridConfig(FALSE, RisingFlood),
     IdleConfig, SingleTripConfig}

Init ==
    /\ cfg \in Configs
    /\ pc = IF ~cfg.scheduled THEN "run"
            ELSE IF cfg.mode = "hybrid_adaptive" THEN "build" ELSE "tick"
    /\ current_sim_time = SimStartTime
    /\ step_count = 0
    /\ mip_call_count = 0
    /\ mip_ran = <<>>
    /\ bus \in [Buses -> {NewBus(s) : s \in IF cfg = SingleTripConfig THEN {100}
                                             ELSE SocChoices}]
    /\ st = NewStations
    /\ active_disruptions = <<>>
    /\ n_random = 0
    /\ flood_t0 = <<>>
    /\ stepped = {}
    /\ log_rows = 0
    /\ sched_in = [events |-> build_event_list, sim_start |-> SimStartTime,
                   sim_end |-> cfg.sim_end, params |-> HybridSettings]
    /\ queue = <<>>
    /\ schedule = <<>>
    /\ schedule_index = 0
    /\ current_batch = <<>>
    /\ ie_time = 0
    /\ ie_pc = "idle"
    /\ step_ret = <<>>
    /\ NoThreads
    /\ NoCache
    /\ NoRoute

\* run(): if not all_start_times: print("No scheduled trips found."); return
RunNoTrips ==
    /\ pc = "run"
    /\ ~cfg.scheduled
    /\ pc' = "done"
    /\ UNCHANGED <<cfg, cacheVars, routeVars, current_sim_time, step_count, mip_call_count, mip_ran,
                   stepped, log_rows, worldVars, schedVars>>
    /\ UNCHANGED parVars

\* _run_hybrid_adaptive: self.hybrid_scheduler.init_events(events, ...)
BuildSchedule ==
    /\ pc = "build"
    /\ \/ ie_pc = "idle" /\ InitEventsStart
       \/ InitEventsMainLoop
       \/ InitEventsTailLoop
    /\ pc' = IF ie_pc' = "built" THEN "tick" ELSE "build"
    /\ UNCHANGED <<cfg, cacheVars, routeVars, current_sim_time, step_count, mip_call_count, mip_ran,
                   stepped, log_rows, worldVars>>
    /\ UNCHANGED parVars

\* what generate_random_disruption can return at time t
RandomChoices(t) ==
    {<<>>} \cup (IF cfg.use_random_disruptions /\ n_random < MaxRandomDisruptions
                 THEN {<<d>> : d \in RandomDisruptions(t)} ELSE {})

\* fixed-interval loop: the loop test, step_count += 1, the hazard update
FixedTickBegin ==
    /\ pc = "tick"
    /\ cfg.mode = "fixed_interval"
    /\ current_sim_time < cfg.sim_end
    /\ step_count' = step_count + 1
    /\ \E new \in RandomChoices(current_sim_time) : Update(new, current_sim_time)
    /\ pc' = "mip"
    /\ UNCHANGED <<cfg, cacheVars, routeVars, current_sim_time, mip_call_count, mip_ran, stepped,
                   log_rows, schedVars>>
    /\ UNCHANGED parVars

\* hybrid loop: next_step(), step_count += 1, the hazard update
HybridTickBegin ==
    /\ pc = "tick"
    /\ cfg.mode = "hybrid_adaptive"
    /\ next_step_result(schedule, schedule_index).ret # <<>>
    /\ next_step
    /\ current_sim_time' = step_ret'[1]
    /\ step_count' = step_count + 1
    /\ \E new \in RandomChoices(step_ret'[1]) : Update(new, step_ret'[1])
    /\ pc' = "mip"
    /\ UNCHANGED <<cfg, cacheVars, routeVars, mip_call_count, mip_ran, stepped, log_rows>>
    /\ UNCHANGED parVars

\* the fixed loop's test fails
FixedFinish ==
    /\ pc = "tick"
    /\ cfg.mode = "fixed_interval"
    /\ current_sim_time >= cfg.sim_end
    /\ pc' = "done"
    /\ UNCHANGED <<cfg, cacheVars, routeVars, current_sim_time, step_count, mip_call_count, mip_ran,
                   stepped, log_rows, worldVars, schedVars>>
    /\ UNCHANGED parVars

\* next_step() returns (None, None): break
HybridFinish ==
    /\ pc = "tick"
    /\ cfg.mode = "hybrid_adaptive"
    /\ next_step_result(schedule, schedule_index).ret = <<>>
    /\ next_step
    /\ pc' = "done"
    /\ UNCHANGED <<cfg, cacheVars, routeVars, current_sim_time, step_count, mip_call_count, mip_ran,
                   stepped, log_rows, worldVars>>
    /\ UNCHANGED parVars

\* fixed mode: if self.use_mip and step_count % self.mip_interval_steps == 1
RunsOnStep(use_mip, n, k) == use_mip /\ n % k = 1

\* hybrid mode: the optimizer on fine steps as well
RunsOnEntry_fine(type) == type \in {"batch", "fine_step"}

\* hybrid mode: if step_type == "batch"
RunsOnEntry(type) == type = "batch"

RunsOptimizer ==
    IF cfg.mode = "hybrid_adaptive" THEN RunsOnEntry(step_ret[2])
    ELSE RunsOnStep(cfg.use_mip, step_count, cfg.mip_interval_steps)

\* optimize_network and apply_mip_decisions
OptimizeAndApply ==
    /\ pc = "mip"
    /\ RunsOptimizer
    /\ \E code \in SolverOutcomes(st) :
          \E dec \in optimize_network(code, bus, st, active_disruptions) :
              bus' = apply_mip_decisions(bus, st, dec, current_sim_time,
                                         active_disruptions)
    /\ mip_call_count' = IF cfg.mode = "hybrid_adaptive" THEN mip_call_count + 1
                         ELSE mip_call_count
    /\ mip_ran' = Append(mip_ran, TRUE)
    /\ pc' = "steps"
    /\ UNCHANGED <<cfg, cacheVars, routeVars, current_sim_time, step_count, stepped, log_rows, st,
                   active_disruptions, n_random, flood_t0, schedVars>>
    /\ UNCHANGED parVars

\* the else branch: the optimizer is skipped on this tick
SkipOptimizer ==
    /\ pc = "mip"
    /\ ~RunsOptimizer
    /\ mip_ran' = Append(mip_ran, FALSE)
    /\ pc' = "steps"
    /\ UNCHANGED <<cfg, cacheVars, routeVars, current_sim_time, step_count, mip_call_count, stepped,
                   log_rows, worldVars, schedVars>>
    /\ UNCHANGED parVars

\* executor.submit(bus.step, context): the step of one bus
BusStep(b) ==
    /\ pc = "steps"
    /\ b \notin stepped
    /\ \E delay \in DelayChoices :
          LET r == step(bus[b], st, b, current_sim_time, active_disruptions, delay)
          IN /\ bus' = [bus EXCEPT ![b] = r.bus]
             /\ st' = r.st
    /\ stepped' = stepped \cup {b}
    /\ UNCHANGED <<cfg, cacheVars, routeVars, pc, current_sim_time, step_count, mip_call_count, mip_ran,
                   log_rows, active_disruptions, n_random, flood_t0, schedVars>>
    /\ UNCHANGED parVars

\* the barrier taken away: the loop goes on once any future is done
AllFuturesDone_any == stepped # {}

\* for future in as_completed(futures): future.result(), inside the with block
AllFuturesDone == stepped = Buses

\* all futures done: log_step, and in fixed mode current_sim_time += step_seconds
LogStep ==
    /\ pc = "steps"
    /\ AllFuturesDone
    /\ log_rows' = log_rows + 1
    /\ current_sim_time' = IF cfg.mode = "fixed_interval"
                           THEN current_sim_time + cfg.step_seconds
                           ELSE current_sim_time
    /\ stepped' = {}
    /\ pc' = "tick"
    /\ UNCHANGED <<cfg, cacheVars, routeVars, step_count, mip_call_count, mip_ran, worldVars, schedVars>>
    /\ UNCHANGED parVars

Next ==
    \/ RunNoTrips
    \/ BuildSchedule
    \/ FixedTickBegin
    \/ HybridTickBegin
    \/ FixedFinish
    \/ HybridFinish
    \/ OptimizeAndApply
    \/ SkipOptimizer
    \/ \E b \in Buses : BusStep(b)
    \/ LogStep

Spec == Init /\ [][Next]_vars

-----------------------------------------------------------------------------
(* The bus steps as the thread pool runs them: nothing locks a station, so  *)
(* the steps of different buses interleave between is_available(), the test *)
(* of occupy()/release(), and the load and the store of the slot counter.   *)

\* the runs whose bus steps are followed thread by thread
ParConfigs == {FixedConfig(3, FALSE, NoFlood), FixedConfig(2, FALSE, NoFlood)}

ParInit ==
    /\ Init
    /\ cfg \in ParConfigs

\* a step up to its first access to a station's slot counter: everything the
\* step does to its own bus, with occupy() or release() still to run
ParBegin(b) ==
    /\ pc = "steps"
    /\ th[b].pc = "idle"
    /\ \E delay \in DelayChoices :
          LET r == step(bus[b], st, b, current_sim_time, active_disruptions, delay)
              starts == r.bus.status = "charging" /\ bus[b].status # "charging"
              finishes == bus[b].status = "charging" /\ r.bus.status # "charging"
                          /\ bus[b].charging_station # None
          IN /\ bus' = [bus EXCEPT ![b] = r.bus]
             /\ th' = [th EXCEPT ![b] =
                        IF starts
                        THEN [pc |-> "occupy_test", op |-> "occupy",
                              station |-> r.bus.charging_station, loaded |-> 0]
                        ELSE IF finishes
                        THEN [pc |-> "release_test", op |-> "release",
                              station |-> bus[b].charging_station, loaded |-> 0]
                        ELSE [pc |-> "done", op |-> "none", station |-> None,
                              loaded |-> 0]]
    /\ fanout' = IF \A o \in Buses : th[o].pc = "idle"
                 THEN [c \in Stations |-> st[c].available_slots] ELSE fanout
    /\ UNCHANGED <<engineVars, st, active_disruptions, n_random, flood_t0, schedVars>>

\* occupy(): if self.available_slots > 0
ParOccupyTest(b) ==
    /\ th[b].pc = "occupy_test"
    /\ th' = [th EXCEPT ![b].pc =
                IF st[th[b].station].available_slots > 0 THEN "occupy_load" ELSE "done"]
    /\ UNCHANGED <<simVars, schedVars, fanout>>

\* occupy(): the load of self.available_slots -= 1
ParOccupyLoad(b) ==
    /\ th[b].pc = "occupy_load"
    /\ th' = [th EXCEPT ![b].pc = "occupy_store",
                        ![b].loaded = st[th[b].station].available_slots]
    /\ UNCHANGED <<simVars, schedVars, fanout>>

\* occupy(): the store of self.available_slots -= 1
ParOccupyStore(b) ==
    /\ th[b].pc = "occupy_store"
    /\ st' = [st EXCEPT ![th[b].station].available_slots = th[b].loaded - 1]
    /\ th' = [th EXCEPT ![b].pc = "done"]
    /\ UNCHANGED <<engineVars, bus, active_disruptions, n_random, flood_t0,
                   schedVars, fanout>>

\* release(): if self.available_slots < self.total_slots
ParReleaseTest(b) ==
    /\ th[b].pc = "release_test"
    /\ th' = [th EXCEPT ![b].pc =
                IF st[th[b].station].available_slots < TotalSlots[th[b].station]
                THEN "release_load" ELSE "done"]
    /\ UNCHANGED <<simVars, schedVars, fanout>>

\* release(): the load of self.available_slots += 1
ParReleaseLoad(b) ==
    /\ th[b].pc = "release_load"
    /\ th' = [th EXCEPT ![b].pc = "release_store",
                        ![b].loaded = st[th[b].station].available_slots]
    /\ UNCHANGED <<simVars, schedVars, fanout>>

\* release(): the store of self.available_slots += 1
ParReleaseStore(b) ==
    /\ th[b].pc = "release_store"
    /\ st' = [st EXCEPT ![th[b].station].available_slots = th[b].loaded + 1]
    /\ th' = [th EXCEPT ![b].pc = "done"]
    /\ UNCHANGED <<engineVars, bus, active_disruptions, n_random, flood_t0,
                   schedVars, fanout>>

\* as_completed: every future is done; log_step; current_sim_time += step_seconds
ParJoin ==
    /\ pc = "steps"
    /\ \A b \in Buses : th[b].pc = "done"
    /\ th' = [b \in Buses |-> IdleThread]
    /\ log_rows' = log_rows + 1
    /\ current_sim_time' = current_sim_time + cfg.step_seconds
    /\ pc' = "tick"
    /\ UNCHANGED <<cfg, cacheVars, routeVars, step_count, mip_call_count, mip_ran, stepped, worldVars,
                   schedVars, fanout>>

ParNext ==
    \/ FixedTickBegin
    \/ FixedFinish
    \/ OptimizeAndApply
    \/ SkipOptimizer
    \/ \E b \in Buses :
          \/ ParBegin(b)
          \/ ParOccupyTest(b)
          \/ ParOccupyLoad(b)
          \/ ParOccupyStore(b)
          \/ ParReleaseTest(b)
          \/ ParReleaseLoad(b)
          \/ ParReleaseStore(b)
    \/ ParJoin

SpecPar == ParInit /\ [][ParNext]_vars

-----------------------------------------------------------------------------
(* The distance cache (optimization/distance_cache.py) and a charging       *)
(* station (core/charging.py) called directly: compute_and_cache_distances  *)
(* then load_cached_distances on the same arguments, and occupy() and       *)
(* release() in any order, one call at a time. A node id is a string, kept  *)
(* as the sequence of its characters.                                       *)

MaxIdLen == 2

MaxEdges == 2

\* the characters of a node id: a letter and the separator of the cache keys
IdChars == {"s", "|"}

NodeIds == UNION {[1..k -> IdChars] : k \in 1..MaxIdLen}

\* where a node lies, as the kilometre post of a straight road
Posts == {0, 3}

CacheInputs ==
    [S_map : [NodeIds -> Posts],
     feasible_edges : {{es[i] : i \in 1..Len(es)} :
                          es \in SeqsUpTo(NodeIds \X NodeIds, MaxEdges)}]

haversine_km(coord1, coord2) ==
    IF coord1 >= coord2 THEN coord1 - coord2 ELSE coord2 - coord1

\* the dictionary compute_and_cache_distances returns
compute_distances(S_map, edges) ==
    [e \in edges |->
        IF e[1] = e[2] THEN 0 ELSE haversine_km(S_map[e[1]], S_map[e[2]])]

\* f"{k[0]}|{k[1]}"
CacheKey(k) == k[1] \o <<"|">> \o k[2]

\* k.split("|")
RECURSIVE SplitKey(_)
SplitKey(s) ==
    IF s = <<>> THEN << <<>> >>
    ELSE IF Head(s) = "|" THEN << <<>> >> \o SplitKey(Tail(s))
    ELSE LET r == SplitKey(Tail(s))
         IN << <<Head(s)>> \o Head(r) >> \o Tail(r)

\* json.dump of a float: its decimal text
FloatText(v) == <<v, ".", 0>>

\* float(v) on what json.load read from that text
ParseFloat(txt) == txt[1]

\* the objects json.dump can write: one entry per key; when two edges give
\* the same key, the one the dictionary's iteration reaches last stays
Serializable(dm) ==
    LET keys == {CacheKey(e) : e \in DOMAIN dm}
    IN {f \in [keys -> {FloatText(dm[e]) : e \in DOMAIN dm}] :
           \A k \in keys :
               \E e \in DOMAIN dm : CacheKey(e) = k /\ f[k] = FloatText(dm[e])}

\* load_cached_distances on the file's object
load_cached_distances(edges, data) ==
    IF \E e \in edges : CacheKey(e) \notin DOMAIN data
    THEN [found |-> FALSE, map |-> <<>>]
    ELSE [found |-> TRUE,
          map |-> [t \in {SplitKey(k) : k \in DOMAIN data} |->
                      ParseFloat(data[CHOOSE k \in DOMAIN data : SplitKey(k) = t])]]

compute_and_cache_distances ==
    /\ cache_pc = "start"
    /\ dist_matrix' = compute_distances(cache_in.S_map, cache_in.feasible_edges)
    /\ cache_file' \in Serializable(dist_matrix')
    /\ cache_pc' = "computed"
    /\ UNCHANGED <<cache_in, cached_dist>>
    /\ UNCHANGED <<cfg, routeVars, pc, current_sim_time, step_count, mip_call_count,
                   mip_ran, stepped, log_rows, worldVars, schedVars, parVars>>

LoadCachedDistances ==
    /\ cache_pc = "computed"
    /\ cached_dist' = load_cached_distances(cache_in.feasible_edges, cache_file)
    /\ cache_pc' = "loaded"
    /\ UNCHANGED <<cache_in, dist_matrix, cache_file>>
    /\ UNCHANGED <<cfg, routeVars, pc, current_sim_time, step_count, mip_call_count,
                   mip_ran, stepped, log_rows, worldVars, schedVars, parVars>>

\* station.occupy() called on station c
OccupyCall(c) ==
    /\ st' = occupy(st, c)
    /\ UNCHANGED <<engineVars, bus, active_disruptions, n_random, flood_t0,
                   schedVars, parVars>>

\* station.release() called on station c
ReleaseCall(c) ==
    /\ st' = release(st, c)
    /\ UNCHANGED <<engineVars, bus, active_disruptions, n_random, flood_t0,
                   schedVars, parVars>>

UnitInit ==
    /\ cache_in \in CacheInputs
    /\ cache_pc = "start"
    /\ dist_matrix = <<>>
    /\ cache_file = <<>>
    /\ cached_dist = <<>>
    /\ NoRoute
    /\ sched_in = [events |-> <<>>, sim_start |-> 0, sim_end |-> 0,
                   params |-> HybridSettings]
    /\ queue = <<>>
    /\ schedule = <<>>
    /\ schedule_index = 0
    /\ current_batch = <<>>
    /\ ie_time = 0
    /\ ie_pc = "idle"
    /\ step_ret = <<>>
    /\ SimNotRunning

UnitNext ==
    \/ compute_and_cache_distances
    \/ LoadCachedDistances
    \/ \E c \in Stations : OccupyCall(c)
    \/ \E c \in Stations : ReleaseCall(c)

SpecUnit == UnitInit /\ [][UnitNext]_vars

\* ---------------------------------------------------------------------
\* a Route built by the loader, one add_stop call per row
\* ---------------------------------------------------------------------
\* add_stop calls in a run
MaxAdds == 3
\* the largest "Seq Number" of a row
MaxSeq == 3

\* the stops the rows refer to
LoadedStops == {"A", "B"}

\* distance_to_previous: <<>> for None, <<d>> for d metres
Distances == {<<>>, <<5>>, <<7>>}

\* Route._build_segments: one segment per pair of consecutive entries of
\* stops, each with distance_meters None
build_segments(stops) ==
    [i \in 1..(Len(stops) - 1) |->
        [from_stop |-> stops[i], to_stop |-> stops[i + 1],
         distance_meters |-> <<>>]]

\* Route.add_stop up to its last line: pad stops with None, put the stop
\* at sequence_number, store the distance on the previous segment
store_segment(rt, stop, sequence_number, distance_to_previous) ==
    LET target_idx == sequence_number - 1
        padded == rt.stops \o
                  [i \in 1..(sequence_number - Len(rt.stops)) |-> None]
        stops2 == [padded EXCEPT ![sequence_number] = stop]
        prev_segment == [from_stop |-> stops2[target_idx], to_stop |-> stop,
                         distance_meters |-> distance_to_previous]
    IN  [stops |-> stops2,
         segments |->
            IF target_idx > 0 /\ distance_to_previous # <<>>
            THEN IF target_idx - 1 < Len(rt.segments)
                 THEN [rt.segments EXCEPT ![target_idx] = prev_segment]
                 ELSE Append(rt.segments, prev_segment)
            ELSE rt.segments]

\* Route.add_stop: the last line rebuilds every segment from stops
add_stop(rt, stop, sequence_number, distance_to_previous) ==
    LET r == store_segment(rt, stop, sequence_number, distance_to_previous)
    IN  [r EXCEPT !.segments = build_segments(r.stops)]

\* Route.get_distance_to_next_stop(current_stop_index), index from 0
Route_get_distance_to_next_stop(rt, current_stop_index) ==
    IF current_stop_index >= Len(rt.segments)
    THEN <<>>
    ELSE rt.segments[current_stop_index + 1].distance_meters

\* route.add_stop(stop, seq_num, distance_to_previous=distance_meters); the
\* log keeps the call and whether the stop before it was already present
AddStopCall(stop, n, d) ==
    /\ Len(add_log) < MaxAdds
    /\ route' = add_stop(route, stop, n, d)
    /\ add_log' = Append(add_log,
          [stop |-> stop, n |-> n, d |-> d,
           prev_present |-> /\ n >= 2
                            /\ Len(route.stops) >= n - 1
                            /\ route.stops[n - 1] # None])
    /\ UNCHANGED <<cfg, cacheVars, pc, current_sim_time, step_count,
                   mip_call_count, mip_ran, stepped, log_rows, worldVars,
                   schedVars, parVars>>

RouteInit ==
    /\ NoCache
    /\ NoRoute
    /\ sched_in = [events |-> <<>>, sim_start |-> 0, sim_end |-> 0,
                   params |-> HybridSettings]
    /\ queue = <<>>
    /\ schedule = <<>>
    /\ schedule_index = 0
    /\ current_batch = <<>>
    /\ ie_time = 0
    /\ ie_pc = "idle"
    /\ step_ret = <<>>
    /\ SimNotRunning

RouteNext ==
    \E stop \in LoadedStops : \E n \in 1..MaxSeq : \E d \in Distances :
        AddStopCall(stop, n, d)

SpecRoute == RouteInit /\ [][RouteNext]_vars

-----------------------------------------------------------------------------
(* Properties of the schedule init_events builds                           *)

Built == ie_pc = "built"

EventsIn == {sched_in.events[i] : i \in 1..Len(sched_in.events)}

C5_FirstBatchAtSimStart ==
    (/\ Built
     /\ sched_in.events # <<>>
     /\ \A e \in EventsIn : e.time < sched_in.sim_start)
    => /\ schedule[1].type = "batch"
       /\ schedule[1].time = sched_in.sim_start
       /\ \A i \in 1..Len(schedule) : schedule[i].time >= sched_in.sim_start

IsScenario == sched_in \in ScenarioInputs

EntryIs(i, t, ty, n) ==
    /\ i <= Len(schedule)
    /\ schedule[i].time = t
    /\ schedule[i].type = ty
    /\ Len(schedule[i].batch) = n

\* C6 (as claimed): for events at 100, 110, 120, 5000 under the default
\* settings the schedule is (120, batch, 3 events), (420, fine_step),
\* (720, fine_step), later coarse_step entries until 5000, and the batch
\* (5000, batch, 1 event).
C6_ScenarioAsClaimed ==
    (Built /\ IsScenario)
    => /\ EntryIs(1, 120, "batch", 3)
       /\ EntryIs(2, 420, "fine_step", 0)
       /\ EntryIs(3, 720, "fine_step", 0)
       /\ \E j \in 4..Len(schedule) :
             /\ EntryIs(j, 5000, "batch", 1)
             /\ \A i \in 4..(j - 1) : schedule[i].type = "coarse_step"

\* C6 (amended): the schedule is (120, batch, the 3 events at 100/110/120),
\* then coarse_step entries every 300 s from 420 to 4920 (the gap to the next
\* event exceeds gap_threshold), then fine_step entries at 4980 and 5000 (the
\* gap is now at most gap_threshold), then (5000, batch, the event at 5000),
\* and after it only coarse_step entries up to sim_end.
C6_ScenarioAmended ==
    (Built /\ IsScenario)
    => /\ EntryIs(1, 120, "batch", 3)
       /\ \A k \in 1..3 : schedule[1].batch[k] = ScenarioEvents[k]
       /\ \A k \in 0..15 : EntryIs(2 + k, 420 + 300 * k, "coarse_step", 0)
       /\ EntryIs(18, 4980, "fine_step", 0)
       /\ EntryIs(19, 5000, "fine_step", 0)
       /\ EntryIs(20, 5000, "batch", 1)
       /\ schedule[20].batch[1] = ScenarioEvents[4]
       /\ \A i \in 21..Len(schedule) : schedule[i].type = "coarse_step"
       /\ Last(schedule).time = sched_in.sim_end

\* C6 witness: the scenario's schedule has been built, past the batch at 5000.
C6_Witness == Built /\ IsScenario /\ Len(schedule) > 20

-----------------------------------------------------------------------------
(* Properties of the simulation                                            *)

ChargingAt(c) ==
    {b \in Buses : bus[b].status = "charging" /\ bus[b].charging_station = c}

\* C1: every bus whose status is charging has a charging station, and for
\* every station the slot counter reflects occupancy: available_slots equals
\* total_slots minus the number of buses charging at it.
C1_SlotAccounting ==
    /\ \A b \in Buses :
          bus[b].status = "charging" => bus[b].charging_station # None
    /\ \A c \in Stations :
          st[c].available_slots = TotalSlots[c] - Cardinality(ChargingAt(c))

\* C2: for every charging station the number of buses charging at it is at
\* most its total_slots, whichever path put them into charging.
C2_ChargingWithinCapacity ==
    \A c \in Stations : Cardinality(ChargingAt(c)) <= TotalSlots[c]

\* the buses whose step of this tick started charging at c, and the ones whose
\* step released a slot of c
StartedAt(c) == {b \in Buses : th[b].op = "occupy" /\ th[b].station = c}

ReleasedAt(c) == {b \in Buses : th[b].op = "release" /\ th[b].station = c}

\* C3: under every interleaving of the bus steps of one tick, no more buses
\* start charging at a station than it had free slots when the steps were
\* handed out (plus the slots released during the tick), and available_slots
\* never becomes negative.
C3_AtomicCheckAndDecrement ==
    \A c \in Stations :
        /\ st[c].available_slots >= 0
        /\ Cardinality(StartedAt(c)) <= fanout[c] + Cardinality(ReleasedAt(c))

\* C7: stranded is terminal: no step of the simulation changes the status of
\* a bus whose status is stranded.
C7_StrandedTerminal ==
    [][\A b \in Buses :
          bus[b].status = "stranded" => bus'[b].status = "stranded"]_vars

\* a stop listed in a disruption of route r that is active now
StopDisruptedNow(s, r) ==
    \E i \in 1..Len(active_disruptions) :
        /\ active_disruptions[i].start_time <= current_sim_time
        /\ current_sim_time <= active_disruptions[i].end_time
        /\ active_disruptions[i].route_id = r
        /\ s \in active_disruptions[i].affected_stop_ids

\* this step puts bus b onto a stop: its location changes to the stop, or its
\* stop index advances onto the stop it is at without the stop being skipped
MovedOntoStop(b) ==
    /\ bus'[b].loc \in StopIds
    /\ \/ bus'[b].loc # bus[b].loc
       \/ /\ bus'[b].idx = bus[b].idx + 1
          /\ bus'[b].unserved_demand = bus[b].unserved_demand
          /\ bus[b].status = "on_route"

BatchTicks == {i \in 1..Len(mip_ran) : schedule[i].type = "batch"}

C10_OncePerInterval ==
    (cfg.mode = "fixed_interval" /\ cfg.use_mip) =>
        \A i \in 1..(Len(mip_ran) - cfg.mip_interval_steps + 1) :
            Cardinality({j \in i..(i + cfg.mip_interval_steps - 1) : mip_ran[j]}) = 1

\* C11: in every tick the phases run in the order disruption update, then
\* optimization and decision application (or their skip), then the bus steps,
\* then logging: bus steps run only after the tick's update and optimizer
\* phase and after the previous tick's log, and the log of a tick is written
\* only when every bus step of the tick has completed.
C11_PhaseOrder ==
    /\ [](/\ pc = "mip" => /\ Len(mip_ran) = step_count - 1
                           /\ log_rows = step_count - 1
                           /\ stepped = {}
          /\ pc = "steps" => /\ Len(mip_ran) = step_count
                             /\ log_rows = step_count - 1
          /\ pc \in {"run", "build", "tick", "done"} =>
                /\ Len(mip_ran) = step_count
                /\ log_rows = step_count
                /\ stepped = {})
    /\ [][log_rows' # log_rows => (stepped = Buses /\ log_rows' = log_rows + 1)]_vars

\* every bus of the second or a later tick has stepped after an optimizer run
\* of that tick, and the tick's log is still to be written
C11_Witness ==
    /\ pc = "steps"
    /\ stepped = Buses
    /\ step_count >= 2
    /\ mip_ran[step_count]

\* the orders in which the pool can run the submitted bus steps
Orders ==
    {o \in [1..Cardinality(Buses) -> Buses] :
        \A i, j \in 1..Cardinality(Buses) : i # j => o[i] # o[j]}

RECURSIVE StepsInOrder(_, _, _, _, _, _)
\* the buses and the stations after the steps of one tick have run one after
\* the other in the given order; delay gives each bus its traffic delay
StepsInOrder(order, bs, sm, t, ds, delay) ==
    IF Len(order) = 0 THEN [bus |-> bs, st |-> sm]
    ELSE LET b == order[1]
             r == step(bs[b], sm, b, t, ds, delay[b])
         IN StepsInOrder(Tail(order), [bs EXCEPT ![b] = r.bus], r.st, t, ds, delay)

\* what the claim compares: each bus's status and charging station, each
\* station's available_slots
AfterFanout(order, delay) ==
    LET r == StepsInOrder(order, bus, st, current_sim_time, active_disruptions,
                          delay)
    IN [status  |-> [b \in Buses |-> r.bus[b].status],
        station |-> [b \in Buses |-> r.bus[b].charging_station],
        slots   |-> [c \in Stations |-> r.st[c].available_slots]]

\* C12: the state after the fan-out of a tick (each bus's status and charging
\* station, each station's available_slots) is the same for every order in
\* which the bus steps of the tick are executed.
C12_OrderIndependent ==
    (pc = "steps" /\ stepped = {}) =>
        \A delay \in [Buses -> DelayChoices] :
            \A o1, o2 \in Orders :
                AfterFanout(o1, delay) = AfterFanout(o2, delay)

\* bus b is on its route, its next stop is not disrupted, the projected SoC
\* after the next segment is below CRITICAL_SOC_PERCENT and no compatible
\* available charger exists
DivertsWithoutCharger(b) ==
    /\ bus[b].status = "on_route"
    /\ bus[b].mip_decision = <<>>
    /\ bus[b].idx < Len(RouteStops[bus[b].route])
    /\ ~NextStopDisrupted(bus[b], RouteStops[bus[b].route][bus[b].idx + 1],
                          active_disruptions, current_sim_time)
    /\ bus[b].soc - SocCost(b, get_distance_to_next_stop(bus[b]))
          < CRITICAL_SOC_PERCENT
    /\ find_nearest_charger(st, bus[b], b) = None

\* this step is the step of bus b
StepOf(b) == pc = "steps" /\ b \notin stepped /\ b \in stepped'

\* the charge of bus b does not cover the way from where it is to its depot
CannotReachDepot(b) ==
    bus[b].soc * BatteryKwh[b] * KM_PER_KWH < DistKm(bus[b].loc, DepotName) * 100

C14_MinimumChargingTime ==
    [][\A b \in Buses :
          /\ (bus[b].status # "charging" /\ bus'[b].status = "charging")
                => /\ bus'[b].charging_end_time # <<>>
                   /\ bus'[b].charging_end_time[1]
                         >= current_sim_time + CHARGING_MIN_TIME_SECONDS
          /\ (bus[b].status = "charging" /\ bus'[b].status = "in_depot")
                => bus'[b].soc = 100]_vars

\* C15: a run of 10 ticks of 60 s on a fleet without scheduled trips and
\* without disruptions ends with 10 logged ticks, every bus in_depot with the
\* SoC it started with, and no optimizer decision applied.
C15_IdleRunIsLogged ==
    (~cfg.scheduled /\ pc = "done") =>
        /\ log_rows = 10
        /\ step_count = 10
        /\ \A b \in Buses : bus[b].status = "in_depot"
        /\ \A b \in Buses : bus[b].charging_station = None

\* C16: without disruptions and optimizer decisions, a bus that starts at its
\* depot with a full battery and has one trip starting at 300 on the route of
\* three stops (demand 1 each), stepped every 60 s, has current_stop_index 3
\* and unserved_demand 0 once the steps of t = 1500 have run.
C16_SingleTripIndex ==
    (cfg = SingleTripConfig /\ current_sim_time = 1500 /\ pc = "steps"
        /\ stepped = Buses) =>
        \A b \in Buses :
            /\ bus[b].idx = Len(RouteStops["R1"])
            /\ bus[b].unserved_demand = 0

\* a station id no station carries
UnknownStation == "CS_unknown"

\* the decisions the applier can be handed for one bus
AnyDecision ==
    {NoDecision, [action |-> "return_depot", target |-> DepotNode]}
    \cup {[action |-> a, target |-> x] :
            a \in {"charge", "move"},
            x \in Stations \cup StopIds \cup {UnknownStation}}

C18_EmptyMapUnlessSolved ==
    (pc = "mip" /\ RunsOptimizer) =>
        \A code \in SolverOutcomes(st) :
            LpStatus[code] # "Optimal" =>
                /\ optimize_network(code, bus, st, active_disruptions)
                      = {NoDecisions}
                /\ \A dec \in optimize_network(code, bus, st, active_disruptions) :
                      apply_mip_decisions(bus, st, dec, current_sim_time,
                                          active_disruptions) = bus

\* C19: whenever the optimizer runs, the builder fixes the position of every
\* bus at t = 0 to exactly one node, whatever the bus's status and stop index.
C19_EveryBusPinned ==
    (pc = "mip" /\ RunsOptimizer) =>
        \A b \in Buses :
            /\ current_node(bus[b], active_disruptions) # None
            /\ current_node(bus[b], active_disruptions)
                  \in S_ids(active_disruptions)

\* C20: whenever the optimizer runs, a station whose operational flag is
\* false is not a node of the graph, no feasible edge leads to it and no
\* decision the optimizer can return names it.
C20_OnlyOperationalStations ==
    (pc = "mip" /\ RunsOptimizer) =>
        \A c \in Stations :
            ~st[c].operational =>
                /\ c \notin S_ids(active_disruptions)
                /\ \A e \in feasible_edges(active_disruptions) : e[2] # c
                /\ \A code \in SolverOutcomes(st) :
                      \A dec \in optimize_network(code, bus, st, active_disruptions) :
                          \A b \in Buses :
                              ~(dec[b].action = "charge" /\ dec[b].target = c)

\* C21: after every update(now), until the tick ends, every disruption in
\* the manager's list is active at now (start_time <= now <= end_time) and
\* none with end_time <= now is left in it.
C21_ListedDisruptionsActive ==
    pc \in {"mip", "steps"} =>
        \A i \in 1..Len(active_disruptions) :
            /\ is_active(active_disruptions[i], current_sim_time)
            /\ active_disruptions[i].end_time > current_sim_time

\* an update has dropped the random disruption an earlier update added
C21_Witness ==
    /\ pc = "mip"
    /\ n_random >= 1
    /\ active_disruptions = <<>>

C23_NoBaseDepthMeansZero ==
    (cfg.flood.enabled /\ flood_t0 # <<>>) =>
        \A x \in Places :
            (~cfg.flood.raster_loaded \/ x \notin cfg.flood.covered) =>
                get_effective_depth(cfg.flood, flood_t0[1], x,
                                    current_sim_time) = 0

\* C28: the state of charge of every bus stays within [0, 100] through bus
\* steps, moves, returns to the depot, charging starts and finishes, and
\* decision applications.
C28_SocWithinRange ==
    \A b \in Buses : 0 <= bus[b].soc /\ bus[b].soc <= 100

\* one bus has driven its charge down below the critical level, another has
\* finished charging at a station
C28_Witness ==
    /\ \E b \in Buses : bus[b].soc < CRITICAL_SOC_PERCENT
    /\ \E b \in Buses : /\ bus[b].soc = 100
                         /\ bus[b].loc \in Stations
                         /\ bus[b].status # "charging"

\* the batches of a schedule, one after the other
RECURSIVE BatchesOf(_)
BatchesOf(sch) ==
    IF sch = <<>> THEN <<>> ELSE Head(sch).batch \o BatchesOf(Tail(sch))

\* C26: once the events are in the queue, the batches get_next_batch has
\* returned so far, one after the other and followed by what is still queued,
\* are in non-decreasing time order with equal times in ascending bus_id
\* order.
C26_BatchesInOrder ==
    ie_pc # "idle" =>
        LET popped == BatchesOf(schedule) \o queue
        IN \A i \in 2..Len(popped) :
              /\ popped[i - 1].time <= popped[i].time
              /\ popped[i - 1].time = popped[i].time
                    => popped[i - 1].bus_id <= popped[i].bus_id

\* two events at the same time were added with the larger bus_id first and
\* have both been returned
C26_Witness ==
    /\ Built
    /\ Len(sched_in.events) >= 2
    /\ sched_in.events[1].time = sched_in.events[2].time
    /\ sched_in.events[1].bus_id > sched_in.events[2].bus_id
    /\ Len(BatchesOf(schedule)) = Len(sched_in.events)

\* the earliest time in a non-empty queue
EarliestTime(q) ==
    CHOOSE t \in {q[i].time : i \in 1..Len(q)} :
        \A i \in 1..Len(q) : t <= q[i].time

C27_EmptyListCoarseOnly ==
    (Built /\ sched_in.events = <<>> /\ sched_in.sim_start < sched_in.sim_end)
    => /\ schedule # <<>>
       /\ \A i \in 1..Len(schedule) :
             /\ schedule[i].type = "coarse_step"
             /\ schedule[i].batch = <<>>
             /\ schedule[i].time =
                   Min2((IF i = 1 THEN sched_in.sim_start
                         ELSE schedule[i - 1].time) + sched_in.params.coarse_step,
                        sched_in.sim_end)
       /\ \A i \in 1..(Len(schedule) - 1) :
             schedule[i].time < sched_in.sim_end
       /\ Last(schedule).time = sched_in.sim_end

\* a schedule built from no events whose last step was cut short at sim_end
C27_Witness ==
    /\ Built
    /\ sched_in.events = <<>>
    /\ Len(schedule) >= 2
    /\ Last(schedule).time - schedule[Len(schedule) - 1].time
          < sched_in.params.coarse_step

\* C25: however often init_events is called with the same events and
\* parameters, the schedule it has built is the same one; after reset() the
\* k-th next_step() returns the (time, type) of the k-th entry and sets
\* current_batch to its batch, as the k-th call of the first iteration did,
\* and the call after the last entry returns (None, None).
C25_SameScheduleSameSteps ==
    /\ [](Built =>
            /\ schedule = init_events(add_events(<<>>, sched_in.events),
                                      sched_in.sim_start, sched_in.params,
                                      sched_in.sim_end)
            /\ (schedule_index > 0 /\ step_ret # <<>>) =>
                  /\ step_ret = <<schedule[schedule_index].time,
                                  schedule[schedule_index].type>>
                  /\ current_batch = schedule[schedule_index].batch)
    /\ [][(Built /\ Built') =>
            \/ /\ schedule_index' = 0
               /\ current_batch' = <<>>
               /\ step_ret' = step_ret
            \/ /\ schedule_index < Len(schedule)
               /\ schedule_index' = schedule_index + 1
               /\ step_ret' = <<schedule[schedule_index'].time,
                                schedule[schedule_index'].type>>
               /\ current_batch' = schedule[schedule_index'].batch
            \/ /\ schedule_index = Len(schedule)
               /\ schedule_index' = schedule_index
               /\ step_ret' = <<>>
               /\ current_batch' = current_batch]_vars

\* reset() has put the iterator back to the start after next_step() had
\* returned the last entry of a schedule that holds a batch
C25_Witness ==
    /\ Built
    /\ Len(schedule) >= 2
    /\ \E i \in 1..Len(schedule) : schedule[i].type = "batch"
    /\ schedule_index = 0
    /\ current_batch = <<>>
    /\ step_ret = <<Last(schedule).time, Last(schedule).type>>

\* C24: compute_and_cache_distances followed by load_cached_distances on the
\* same node map and feasible edges returns the computed map: the same
\* (from_id, to_id) keys, whatever the node ids are, and the same distance
\* for each key.
C24_LoadReturnsComputed ==
    cache_pc = "loaded" =>
        /\ cached_dist.found
        /\ cached_dist.map = dist_matrix

\* C29: after any sequence of occupy() and release() calls made one at a
\* time, every station has 0 <= available_slots <= total_slots; occupy() at 0
\* and release() at total_slots leave the counter as it is.
C29_SlotsWithinBounds ==
    \A c \in Stations :
        /\ 0 <= st[c].available_slots
        /\ st[c].available_slots <= TotalSlots[c]
        /\ st[c].available_slots = 0 => occupy(st, c) = st
        /\ st[c].available_slots = TotalSlots[c] => release(st, c) = st

\* a station whose slots have all been occupied, after a cache was loaded
C29_Witness ==
    /\ cache_pc = "loaded"
    /\ \E c \in Stations : st[c].available_slots = 0

\* how often e occurs in the sequence s
CountIn(s, e) == Cardinality({i \in 1..Len(s) : s[i] = e})

\* C31: in the schedule init_events has built, every event whose time is at
\* most sim_end lies in exactly one batch entry, and no event lies in two.
C31_EveryEventInOneBatch ==
    (Built /\ sched_in.sim_start < sched_in.sim_end) =>
        \A e \in EventsIn :
            /\ CountIn(BatchesOf(schedule), e) <= CountIn(sched_in.events, e)
            /\ e.time <= sched_in.sim_end =>
                  CountIn(BatchesOf(schedule), e) = CountIn(sched_in.events, e)

\* the events not yet batched when entry i was appended: those of the later
\* batches and those still queued
PendingAt(i) == BatchesOf(SubSeq(schedule, i + 1, Len(schedule))) \o queue

\* C32: no fine_step or coarse_step entry has a time later than an event
\* that was not yet batched when the entry was made, and every batch entry's
\* time is the largest event time in its batch, so no event is processed
\* before its own time.
C32_EventOrderPreserved ==
    \A i \in 1..Len(schedule) :
        IF schedule[i].type = "batch"
        THEN /\ schedule[i].batch # <<>>
             /\ \A k \in 1..Len(schedule[i].batch) :
                   schedule[i].batch[k].time <= schedule[i].time
             /\ \E k \in 1..Len(schedule[i].batch) :
                   schedule[i].batch[k].time = schedule[i].time
        ELSE \A k \in 1..Len(PendingAt(i)) :
                 schedule[i].time <= PendingAt(i)[k].time

\* a time step was cut short at the time of the next event, and the batch
\* that follows holds events of different times
C32_Witness ==
    /\ Built
    /\ \E i \in 2..(Len(schedule) - 1) :
          /\ schedule[i].type = "fine_step"
          /\ schedule[i + 1].type = "batch"
          /\ schedule[i].time = Head(schedule[i + 1].batch).time
          /\ schedule[i].time < sched_in.sim_end
          /\ schedule[i].time < schedule[i - 1].time + sched_in.params.fine_step
    /\ \E j \in 1..Len(schedule) :
          /\ schedule[j].type = "batch"
          /\ Head(schedule[j].batch).time < Last(schedule[j].batch).time

\* C33: for sim_start < sim_end the schedule init_events builds ends exactly
\* at sim_end: it is not empty, its last entry's time is sim_end and no entry
\* has a time greater than sim_end.
C33_ScheduleEndsAtSimEnd ==
    (Built /\ sched_in.sim_start < sched_in.sim_end) =>
        /\ schedule # <<>>
        /\ Last(schedule).time = sched_in.sim_end
        /\ \A i \in 1..Len(schedule) : schedule[i].time <= sched_in.sim_end

\* bus b after n more agent steps, one per tick, with no decision given to
\* it and the stations and disruptions as they are
RECURSIVE StepsAlone(_, _, _, _, _, _)
StepsAlone(br, sm, b, t, n, delay) ==
    IF n = 0 THEN br
    ELSE LET r == step(br, sm, b, t, active_disruptions, delay)
         IN StepsAlone(r.bus, r.st, b, t + cfg.step_seconds, n - 1, delay)

\* C34: a bus the decision applier has put into returning_to_depot or
\* heading_to_charger is brought to in_depot, charging or stranded by its own
\* agent steps of the following ticks, without a further decision.
C34_ReturningBusArrives ==
    \A b \in Buses :
        (pc = "steps"
         /\ bus[b].status \in {"returning_to_depot", "heading_to_charger"}) =>
            \E n \in 1..MaxTicks : \E delay \in DelayChoices :
                StepsAlone(bus[b], st, b, current_sim_time, n, delay).status
                    \in {"in_depot", "charging", "stranded"}

\* the charging session of bus b is over at the time of this tick
ChargingDone(b) ==
    bus[b].charging_end_time # <<>>
    /\ bus[b].charging_end_time[1] <= current_sim_time

\* C35: a step on a charging bus whose charging_end_time has come releases
\* one slot of its station, sets the SoC to 100, clears charging_station and
\* charging_end_time and sets the status to in_depot; a step on a charging
\* bus whose charging_end_time has not come changes neither the bus nor any
\* station.
C35_ChargingStep ==
    [][\A b \in Buses :
          (StepOf(b) /\ bus[b].status = "charging") =>
              IF ChargingDone(b)
              THEN /\ st'[bus[b].charging_station].available_slots
                        = st[bus[b].charging_station].available_slots + 1
                   /\ bus'[b].soc = 100
                   /\ bus'[b].charging_station = None
                   /\ bus'[b].charging_end_time = <<>>
                   /\ bus'[b].status = "in_depot"
              ELSE /\ bus'[b] = bus[b]
                   /\ st' = st]_vars

\* the stop an on-route bus would go to next
NextStopOf(b) == RouteStops[bus[b].route][bus[b].idx + 1]

\* C36: when the next stop of an on-route bus is listed in a disruption of
\* the bus's route that is active now, the step skips that one stop:
\* unserved_demand grows by the stop's demand, current_stop_index by 1, and
\* nothing else of the bus changes (SoC, location, status, route, delay),
\* nor any station.
C36_SkipChangesOnlyIndexAndDemand ==
    [][\A b \in Buses :
          (/\ StepOf(b)
           /\ bus[b].status = "on_route"
           /\ bus[b].idx < Len(RouteStops[bus[b].route])
           /\ StopDisruptedNow(NextStopOf(b), bus[b].route))
          => /\ bus'[b] = [bus[b] EXCEPT
                              !.unserved_demand = @ + Demand[NextStopOf(b)],
                              !.idx = @ + 1]
             /\ st' = st]_vars

\* a bus has skipped the stop its index has passed without going there
C36_Witness ==
    \E b \in Buses :
        /\ bus[b].status = "on_route"
        /\ bus[b].idx >= 1
        /\ bus[b].unserved_demand = Demand[RouteStops[bus[b].route][bus[b].idx]]
        /\ bus[b].unserved_demand > 0
        /\ bus[b].loc # RouteStops[bus[b].route][bus[b].idx]

ListedStops ==
    {s \in StopIds : \E i \in 1..Len(active_disruptions) :
                         s \in active_disruptions[i].affected_stop_ids}

\* C38: whenever the optimizer runs, no stop listed in an active disruption
\* is a node of the graph or an endpoint of a feasible edge, and no move
\* decision the optimizer can return targets such a stop.
C38_NoDisruptedStopInGraph ==
    (pc = "mip" /\ RunsOptimizer) =>
        \A s \in ListedStops :
            /\ s \notin S_ids(active_disruptions)
            /\ \A e \in feasible_edges(active_disruptions) :
                  e[1] # s /\ e[2] # s
            /\ \A code \in SolverOutcomes(st) :
                  \A dec \in optimize_network(code, bus, st, active_disruptions) :
                      \A b \in Buses :
                          dec[b].action = "move" => dec[b].target # s

\* the optimizer runs while a stop is disrupted and another stop is the
\* target of a move decision it can return
C38_Witness ==
    /\ pc = "mip"
    /\ RunsOptimizer
    /\ ListedStops # {}
    /\ \E code \in SolverOutcomes(st) :
          \E dec \in optimize_network(code, bus, st, active_disruptions) :
              \E b \in Buses : dec[b].action = "move"

\* C39: a distance supplied by add_stop(stop, n, d) with n >= 2, d given and
\* stop n-1 already present is what get_distance_to_next_stop(n-2) returns,
\* also after later add_stop calls for other sequence numbers; and
\* segments[i] joins stops[i] to stops[i+1].
C39_SuppliedDistanceAvailable ==
    /\ \A k \in 1..Len(add_log) :
          ( /\ add_log[k].n >= 2
            /\ add_log[k].d # <<>>
            /\ add_log[k].prev_present
            /\ \A j \in (k + 1)..Len(add_log) : add_log[j].n # add_log[k].n )
          => Route_get_distance_to_next_stop(route, add_log[k].n - 2)
                = add_log[k].d
    /\ \A i \in 1..Len(route.segments) :
          /\ route.segments[i].from_stop = route.stops[i]
          /\ route.segments[i].to_stop = route.stops[i + 1]

=============================================================================
